---- MODULE Spec2Model ----
(***************************************************************************)
(* State-machine model of ray::gcs::RedisContext, RedisCallbackManager and *)
(* the two reply routers of src/ray/gcs/redis_context.cc.                  *)
(*                                                                         *)
(* Byte strings are sequences of byte values.  A reply is a record         *)
(* [type, str, element]; element is the sequence of the byte strings of    *)
(* the elements of an array reply.  The null reply pointer is NullReply.   *)
(***************************************************************************)
EXTENDS Integers, Sequences, FiniteSets, TLC

\* ---- bounds of the model ------------------------------------------------
MaxCallbacks == 2     \* add is called at most this many times
MaxReplies == 2       \* replies routed by the two routers together
MaxElements == 2      \* elements of an array reply
redis_db_connect_retries == 3   \* RayConfig::redis_db_connect_retries()

\* ---- inputs -------------------------------------------------------------
Callbacks == {"f", "g"}                 \* the functions passed to add
Tokens == 0 .. (MaxCallbacks - 1)       \* callback_index values of callers
TablePubsub_NO_PUBLISH == "NO_PUBLISH"
Channels == {TablePubsub_NO_PUBLISH, "TASK"}
Lengths == {-1, 0, 1}                   \* the length argument of RunAsync

STR_subscribe == <<115, 117, 98, 115, 99, 114, 105, 98, 101>>
STR_message == <<109, 101, 115, 115, 97, 103, 101>>
STR_pmessage == <<112>> \o STR_message
\* payloads: empty, "h", and "h" NUL "i"
Payloads == {<<>>, <<104>>, <<104, 0, 105>>}
\* element strings; the last one is "message" NUL "x"
ElementStrs == {<<>>, <<104, 0, 105>>, STR_subscribe, STR_message,
                STR_pmessage, STR_message \o <<0, 120>>}

NullReply == [type |-> "NULL", str |-> <<>>, element |-> <<>>]

ElementSeqs == UNION {[1 .. n -> ElementStrs] : n \in 0 .. MaxElements}

Replies ==
  {NullReply}
  \cup {[type |-> "REDIS_REPLY_STRING", str |-> p, element |-> <<>>] :
          p \in Payloads}
  \cup {[type |-> "REDIS_REPLY_NIL", str |-> <<>>, element |-> <<>>],
        [type |-> "REDIS_REPLY_STATUS", str |-> <<79, 75>>, element |-> <<>>],
        [type |-> "REDIS_REPLY_ERROR", str |-> <<69, 82, 82>>,
         element |-> <<>>],
        [type |-> "REDIS_REPLY_INTEGER", str |-> <<>>, element |-> <<>>]}
  \cup {[type |-> "REDIS_REPLY_ARRAY", str |-> <<>>, element |-> es] :
          es \in ElementSeqs}

Absent == "absent"       \* no entry under the token
NullCallback == "null"   \* an entry holding a null unique_ptr

\* One reply of every shape the routers tell apart; the behaviours of the
\* whole program draw their replies from here.
ReplySamples ==
  {r \in Replies :
     /\ r.type \notin {"REDIS_REPLY_NIL", "REDIS_REPLY_STATUS"}
     /\ r.type = "REDIS_REPLY_STRING" => r.str = <<104, 0, 105>>
     /\ r.type = "REDIS_REPLY_ARRAY" =>
          r.element \in {<<>>, <<STR_subscribe>>,
                         <<STR_message, <<104, 0, 105>>>>}}

\* ---- state --------------------------------------------------------------
VARIABLES
  callbacks_,          \* RedisCallbackManager: token -> callback or "null"
  num_callbacks,       \* RedisCallbackManager: next token
  status,              \* "running", "fatal" (RAY_LOG(FATAL), RAY_CHECK),
                       \* "crashed" (a crash of undefined behaviour)
  ub,                  \* undefined behaviour has been executed
  pc,                  \* position of Connect
  context_,            \* blocking connection
  connection_attempts, \* local of Connect, gone when Connect returns
  async_context_,      \* command connection
  subscribe_context_,  \* subscribe connection
  connect_calls,       \* calls of redisConnect by the running Connect
  sleeps,              \* calls of usleep by the running Connect
  connect_failures,    \* failed calls of redisConnect by the running Connect
  config_reply,        \* reply of CONFIG SET in Connect, "none" before it
  async_queue,         \* commands issued on async_context_, oldest first
  subscribe_sent,      \* SUBSCRIBE commands issued on subscribe_context_
  single_shot,         \* history: registered tokens RunAsync has accepted
  invoked,             \* history: token -> invocations of its callback
  replies,             \* history: replies routed so far
  last                 \* history: the last call of a dispatcher or router

vars == <<callbacks_, num_callbacks, status, ub, pc, context_,
          connection_attempts, async_context_, subscribe_context_,
          connect_calls, sleeps, connect_failures, config_reply, async_queue,
          subscribe_sent, single_shot, invoked, replies, last>>

registry == <<callbacks_, num_callbacks>>
connectVars == <<pc, context_, connection_attempts, async_context_,
                 subscribe_context_, connect_calls, sleeps, connect_failures,
                 config_reply>>

\* A record of one call: the operation, its token, the reply routed, whether
\* a registered callback was invoked, which one, with which payload, and the
\* Status returned (dispatchers only).
Call(op, token, reply, called, cb, data, ret) ==
  [op |-> op, token |-> token, reply |-> reply, called |-> called,
   cb |-> cb, data |-> data, ret |-> ret, args |-> <<>>, wire |-> <<>>]

\* The record of a dispatcher: args are its arguments besides the token, and
\* wire is the command handed to redisAsyncCommand,
\* <<handler, privdata, format, arguments>> (empty when the dispatcher stopped
\* before it).
Sent(op, token, args, ret, wire) ==
  [Call(op, token, NullReply, FALSE, "none", <<>>, ret)
     EXCEPT !.args = args, !.wire = wire]

NoCall == Call("none", 0, NullReply, FALSE, "none", <<>>, "none")

Init ==
  /\ callbacks_ = [t \in Tokens |-> Absent]
  /\ num_callbacks = 0
  /\ status = "running"
  /\ ub = FALSE
  /\ pc = "start"
  /\ context_ = "unset"
  /\ connection_attempts = 0
  /\ async_context_ = "unset"
  /\ subscribe_context_ = "unset"
  /\ connect_calls = 0
  /\ sleeps = 0
  /\ connect_failures = 0
  /\ config_reply = "none"
  /\ async_queue = <<>>
  /\ subscribe_sent = {}
  /\ single_shot = {}
  /\ invoked = [t \in Tokens |-> 0]
  /\ replies = 0
  /\ last = NoCall

\* ---- RedisCallbackManager ----------------------------------------------
\* callbacks_.emplace(num_callbacks, function); return num_callbacks++
RegistryAdd_NoIncrement(cbs, n, function) ==
  [callbacks |-> [cbs EXCEPT ![n] = IF cbs[n] = Absent THEN function
                                                       ELSE cbs[n]],
   num |-> n,
   token |-> n]

RegistryAdd(cbs, n, function) ==
  [callbacks |-> [cbs EXCEPT ![n] = IF cbs[n] = Absent THEN function
                                                       ELSE cbs[n]],
   num |-> n + 1,
   token |-> n]

\* callbacks_[callback_index]: operator[] inserts a null entry when the
\* token has none
RegistryIndex(cbs, callback_index) ==
  IF cbs[callback_index] = Absent
    THEN [cbs EXCEPT ![callback_index] = NullCallback]
    ELSE cbs

\* callbacks_.erase(callback_index)
RegistryRemove_All(cbs, callback_index) == [t \in Tokens |-> Absent]

RegistryRemove(cbs, callback_index) ==
  [cbs EXCEPT ![callback_index] = Absent]

Registered(t) == callbacks_[t] \in Callbacks

\* The registry after the body of an invoked callback has run: the body may
\* call add for each function of body, in order.
RECURSIVE AfterBody(_, _, _)
AfterBody(cbs, n, body) ==
  IF body = <<>> THEN [callbacks |-> cbs, num |-> n]
  ELSE LET a == RegistryAdd(cbs, n, Head(body))
       IN AfterBody(a.callbacks, a.num, Tail(body))

Bodies == {<<>>, <<"g">>}

\* ---- decoding of replies -----------------------------------------------
\* The C string that starts at the first byte of s: the bytes before the
\* first NUL.
RECURSIVE CStr(_)
CStr(s) ==
  IF s = <<>> \/ Head(s) = 0 THEN <<>> ELSE <<Head(s)>> \o CStr(Tail(s))

\* strcmp(a, b) == 0
StrcmpEqual(a, b) == CStr(a) = CStr(b)

\* Lines 31-33: the payload of an array reply on the command connection.
ArrayPayload_First(element) == element[1]

ArrayPayload(element) == element[Len(element)]

\* Lines 27-40: the payload GlobalRedisCallback computes.
\* kind "data": go on to the callback; "fatal": RAY_LOG(FATAL);
\* "ub": element[elements - 1] of an array without elements.
CommandDecode_AcceptsAny(reply) ==
  CASE reply.type = "REDIS_REPLY_STRING" ->
         [kind |-> "data", data |-> reply.str]
    [] reply.type = "REDIS_REPLY_ARRAY" ->
         IF Len(reply.element) = 0
           THEN [kind |-> "ub", data |-> <<>>]
           ELSE [kind |-> "data", data |-> ArrayPayload(reply.element)]
    [] OTHER -> [kind |-> "data", data |-> <<>>]

CommandDecode(reply) ==
  CASE reply.type = "REDIS_REPLY_NIL" -> [kind |-> "data", data |-> <<>>]
    [] reply.type = "REDIS_REPLY_STRING" ->
         [kind |-> "data", data |-> reply.str]
    [] reply.type = "REDIS_REPLY_ARRAY" ->
         IF Len(reply.element) = 0
           THEN [kind |-> "ub", data |-> <<>>]
           ELSE [kind |-> "data", data |-> ArrayPayload(reply.element)]
    [] reply.type = "REDIS_REPLY_STATUS" -> [kind |-> "data", data |-> <<>>]
    [] reply.type = "REDIS_REPLY_ERROR" -> [kind |-> "data", data |-> <<>>]
    [] OTHER -> [kind |-> "fatal", data |-> <<>>]

\* Lines 56-67: the payload of an array reply on the subscribe connection,
\* from its message type (element[0]) and its last element.
SubscribePayload_ErrorOnly(message_type, message) ==
  CASE StrcmpEqual(message_type, STR_subscribe) ->
         [kind |-> "data", data |-> <<>>]
    [] StrcmpEqual(message_type, STR_message) ->
         [kind |-> "data", data |-> message]
    [] OTHER -> [kind |-> "fatal", data |-> <<>>]

SubscribePayload_AckCarriesData(message_type, message) ==
  CASE StrcmpEqual(message_type, STR_subscribe) ->
         [kind |-> "data", data |-> message]
    [] StrcmpEqual(message_type, STR_message) ->
         IF message = <<>> THEN [kind |-> "fatal", data |-> message]
                           ELSE [kind |-> "data", data |-> message]
    [] OTHER -> [kind |-> "fatal", data |-> <<>>]

SubscribePayload(message_type, message) ==
  CASE StrcmpEqual(message_type, STR_subscribe) ->
         [kind |-> "data", data |-> <<>>]
    [] StrcmpEqual(message_type, STR_message) ->
         \* RAY_CHECK(!data.empty())
         IF message = <<>> THEN [kind |-> "fatal", data |-> message]
                           ELSE [kind |-> "data", data |-> message]
    [] OTHER -> [kind |-> "fatal", data |-> <<>>]

\* Lines 72-73: an error reply on the subscribe connection is logged.
SubscribeError_Calls == [kind |-> "data", data |-> <<>>]

SubscribeError == [kind |-> "log", data |-> <<>>]

\* Lines 52-77: the payload SubscribeRedisCallback computes.
\* kind "log": the router returns without a call of the registry;
\* "ub": element[0] of an array without elements.
SubscribeDecode(reply) ==
  CASE reply.type = "REDIS_REPLY_ARRAY" ->
         IF Len(reply.element) = 0
           THEN [kind |-> "ub", data |-> <<>>]
           ELSE SubscribePayload(reply.element[1],
                                 reply.element[Len(reply.element)])
    [] reply.type = "REDIS_REPLY_ERROR" -> SubscribeError
    [] OTHER -> [kind |-> "fatal", data |-> <<>>]

\* ---- the routers -------------------------------------------------------
\* Lines 42-43: GlobalRedisCallback deletes the callback after calling it.
CommandAfterCall_Keeps(cbs, callback_index) == cbs

CommandAfterCall(cbs, callback_index) == RegistryRemove(cbs, callback_index)

\* Lines 69-71: SubscribeRedisCallback does not delete the callback.
SubscribeAfterCall_Removes(cbs, callback_index) ==
  RegistryRemove(cbs, callback_index)

SubscribeAfterCall(cbs, callback_index) == cbs

AfterCall(erase, cbs, callback_index) ==
  IF erase THEN CommandAfterCall(cbs, callback_index)
           ELSE SubscribeAfterCall(cbs, callback_index)

\* get(callback_index)(data), then what the router does with the entry; erase
\* tells the command router from the subscribe router.
\* With no callback under the token, operator[] inserts a null entry and the
\* call through it is undefined: the process crashes, or goes on without a
\* callback having run.
Dispatch(op, callback_index, reply, data, body, erase, u) ==
  IF callbacks_[callback_index] \in Callbacks
    THEN LET ab == AfterBody(callbacks_, num_callbacks, body)
         IN /\ num_callbacks + Len(body) <= MaxCallbacks
            /\ callbacks_' = AfterCall(erase, ab.callbacks, callback_index)
            /\ num_callbacks' = ab.num
            /\ invoked' = [invoked EXCEPT ![callback_index] = @ + 1]
            /\ last' = Call(op, callback_index, reply, TRUE,
                            callbacks_[callback_index], data, "none")
            /\ ub' = u
            /\ status' = status
    ELSE /\ body = <<>>
         /\ ub' = TRUE
         /\ last' = Call(op, callback_index, reply, FALSE, "none", data, "none")
         /\ UNCHANGED <<num_callbacks, invoked>>
         /\ \/ /\ status' = "crashed"
               /\ callbacks_' = RegistryIndex(callbacks_, callback_index)
            \/ /\ status' = status
               /\ callbacks_' =
                    AfterCall(erase, RegistryIndex(callbacks_, callback_index),
                              callback_index)

\* The router stops the process (RAY_LOG(FATAL), RAY_CHECK) or crashes.
Stop(op, callback_index, reply, how, u) ==
  /\ status' = how
  /\ ub' = u
  /\ last' = Call(op, callback_index, reply, FALSE, "none", <<>>, "none")
  /\ UNCHANGED <<callbacks_, num_callbacks, invoked>>

\* The router returns without a call of the registry.
Return_Retires(op, callback_index, reply) ==
  /\ last' = Call(op, callback_index, reply, FALSE, "none", <<>>, "none")
  /\ callbacks_' = RegistryRemove(callbacks_, callback_index)
  /\ UNCHANGED <<num_callbacks, invoked, status, ub>>

Return(op, callback_index, reply) ==
  /\ last' = Call(op, callback_index, reply, FALSE, "none", <<>>, "none")
  /\ UNCHANGED <<callbacks_, num_callbacks, invoked, status, ub>>

\* void GlobalRedisCallback(void *c, void *r, void *privdata)
GlobalRedisCallback(r, privdata, body) ==
  IF r = NullReply
    THEN Return("GlobalRedisCallback", privdata, r)
    ELSE LET d == CommandDecode(r)
         IN CASE d.kind = "fatal" ->
                   Stop("GlobalRedisCallback", privdata, r, "fatal", ub)
              [] d.kind = "ub" ->
                   \* element[elements - 1] is read outside the array
                   \/ Stop("GlobalRedisCallback", privdata, r, "crashed", TRUE)
                   \/ \E garbage \in Payloads :
                        Dispatch("GlobalRedisCallback", privdata, r, garbage,
                                 body, TRUE, TRUE)
              [] OTHER ->
                   Dispatch("GlobalRedisCallback", privdata, r, d.data, body,
                            TRUE, ub)

\* void SubscribeRedisCallback(void *c, void *r, void *privdata)
SubscribeRedisCallback(r, privdata, body) ==
  IF r = NullReply
    THEN Return("SubscribeRedisCallback", privdata, r)
    ELSE LET d == SubscribeDecode(r)
         IN CASE d.kind = "fatal" ->
                   Stop("SubscribeRedisCallback", privdata, r, "fatal", ub)
              [] d.kind = "ub" ->
                   \* element[0] is read outside the array
                   \/ Stop("SubscribeRedisCallback", privdata, r, "crashed",
                           TRUE)
                   \/ Stop("SubscribeRedisCallback", privdata, r, "fatal", TRUE)
                   \/ \E garbage \in Payloads :
                        Dispatch("SubscribeRedisCallback", privdata, r, garbage,
                                 body, FALSE, TRUE)
              [] d.kind = "log" ->
                   Return("SubscribeRedisCallback", privdata, r)
              [] OTHER ->
                   Dispatch("SubscribeRedisCallback", privdata, r, d.data, body,
                            FALSE, ub)

\* ---- the callers and the reactor ---------------------------------------
Running == status = "running"
Connected == pc = "returned_ok"
\* Connect blocks the one thread of control: between its first and its last
\* step no other operation runs.
InConnect == pc \in {"loop", "config", "async", "subscribe"}

\* A caller registers a callback: RedisCallbackManager::instance().add(f)
Add(function) ==
  /\ Running
  /\ ~InConnect
  /\ num_callbacks < MaxCallbacks
  /\ LET a == RegistryAdd(callbacks_, num_callbacks, function)
     IN /\ callbacks_' = a.callbacks
        /\ num_callbacks' = a.num
        /\ last' = Call("add", a.token, NullReply, FALSE, function, <<>>,
                        "none")
  /\ UNCHANGED <<status, ub, connectVars, async_queue, subscribe_sent,
                 single_shot, invoked, replies>>

\* Line 168: the payload is sent when length > 0.
HasPayload_NonNegative(length) == length >= 0

HasPayload(length) == length > 0

\* Lines 170-174 and 180-184: the commands outstanding on async_context_
\* after redisAsyncCommand has returned sent; an accepted command goes behind
\* the commands issued before it, with callback_index as its privdata.
AfterCommand_Front(queue, callback_index, sent) ==
  IF sent = "REDIS_OK" THEN <<callback_index>> \o queue ELSE queue

AfterCommand_OnError(queue, callback_index, sent) ==
  Append(queue, callback_index)

AfterCommand(queue, callback_index, sent) ==
  IF sent = "REDIS_OK" THEN Append(queue, callback_index) ELSE queue

\* Status RedisContext::RunAsync(command, id, data, length, pubsub_channel,
\*                               callback_index)
\* sent is the result of redisAsyncCommand.
RunAsync(length, pubsub_channel, callback_index, sent) ==
  /\ Running
  /\ Connected
  /\ async_queue' = AfterCommand(async_queue, callback_index, sent)
  /\ single_shot' = IF Registered(callback_index) /\ sent = "REDIS_OK"
                      THEN single_shot \cup {callback_index}
                      ELSE single_shot
  /\ last' = Sent("RunAsync", callback_index, <<length, pubsub_channel>>,
                  IF sent = "REDIS_ERR" THEN "RedisError" ELSE "OK",
                  IF HasPayload(length)
                    THEN <<"GlobalRedisCallback", callback_index, "%d %b %b",
                           <<pubsub_channel, "id", "data">>>>
                    ELSE <<"GlobalRedisCallback", callback_index, "%d %b",
                           <<pubsub_channel, "id">>>>)
  /\ UNCHANGED <<registry, status, ub, connectVars, subscribe_sent, invoked,
                 replies>>

\* Line 195: RAY_CHECK(pubsub_channel != TablePubsub_NO_PUBLISH)
PubsubEnabled_Unchecked(pubsub_channel) == TRUE

PubsubEnabled(pubsub_channel) == pubsub_channel # TablePubsub_NO_PUBLISH

\* Status RedisContext::SubscribeAsync(client_id, pubsub_channel,
\*                                     callback_index)
SubscribeAsync(client_is_nil, pubsub_channel, callback_index, sent) ==
  /\ Running
  /\ Connected
  /\ IF ~PubsubEnabled(pubsub_channel)
       THEN /\ status' = "fatal"
            /\ last' = Sent("SubscribeAsync", callback_index,
                            <<client_is_nil, pubsub_channel>>, "none", <<>>)
            /\ UNCHANGED subscribe_sent
       ELSE /\ subscribe_sent' =
                 IF sent = "REDIS_OK"
                   THEN subscribe_sent \cup
                          {[privdata |-> callback_index,
                            channel |-> pubsub_channel]}
                   ELSE subscribe_sent
            /\ last' = Sent("SubscribeAsync", callback_index,
                            <<client_is_nil, pubsub_channel>>,
                            IF sent = "REDIS_ERR" THEN "RedisError" ELSE "OK",
                            IF client_is_nil
                              THEN <<"SubscribeRedisCallback", callback_index,
                                     "SUBSCRIBE %d", <<pubsub_channel>>>>
                              ELSE <<"SubscribeRedisCallback", callback_index,
                                     "SUBSCRIBE %d:%b",
                                     <<pubsub_channel, "client_id">>>>)
            /\ UNCHANGED status
  /\ UNCHANGED <<registry, ub, connectVars, async_queue, single_shot,
                 invoked, replies>>

\* The reactor delivers the reply of the oldest command on async_context_
\* (a null reply when the connection is torn down).
CommandReply(r, body) ==
  /\ Running
  /\ replies < MaxReplies
  /\ async_queue # <<>>
  /\ GlobalRedisCallback(r, Head(async_queue), body)
  /\ async_queue' = Tail(async_queue)
  /\ replies' = replies + 1
  /\ UNCHANGED <<connectVars, subscribe_sent, single_shot>>

\* The reactor delivers a reply on subscribe_context_ for one of the
\* subscriptions issued.
SubscribeReply(r, body) ==
  /\ Running
  /\ replies < MaxReplies
  /\ \E s \in subscribe_sent : SubscribeRedisCallback(r, s.privdata, body)
  /\ replies' = replies + 1
  /\ UNCHANGED <<connectVars, async_queue, subscribe_sent, single_shot>>

\* ---- Status RedisContext::Connect(address, port) -----------------------
ConnectResults == {"nullptr", "err", "ok"}
\* context_ == nullptr || context_->err
ConnectFailed(c) == c = "nullptr" \/ c = "err"

connectLocals == <<connection_attempts, connect_calls, sleeps,
                   connect_failures>>

\* Lines 116-117: connection_attempts >= redis_db_connect_retries()
RetriesExhausted_Late(attempts) == attempts > redis_db_connect_retries

RetriesExhausted(attempts) == attempts >= redis_db_connect_retries

\* Line 129: the sleeps after one more usleep
AfterSleep_None(n) == n

AfterSleep(n) == n + 1

\* Connect returns: its locals are gone.
ConnectReturns(ret) ==
  /\ pc' = ret
  /\ connection_attempts' = 0
  /\ connect_calls' = 0
  /\ sleeps' = 0
  /\ connect_failures' = 0

\* Lines 113-114: the first redisConnect.
ConnectStart(result) ==
  /\ Running
  /\ pc = "start"
  /\ connection_attempts' = 0
  /\ context_' = result
  /\ connect_calls' = 1
  /\ connect_failures' = IF ConnectFailed(result) THEN 1 ELSE 0
  /\ sleeps' = 0
  /\ pc' = "loop"
  /\ UNCHANGED <<registry, status, ub, async_context_, subscribe_context_,
                 config_reply, async_queue, subscribe_sent, single_shot,
                 invoked, replies, last>>

\* Lines 115-132: one evaluation of the loop condition and of the body.
ConnectRetry(result) ==
  /\ Running
  /\ pc = "loop"
  /\ IF ConnectFailed(context_)
       THEN IF RetriesExhausted(connection_attempts)
              THEN /\ status' = "fatal"
                   /\ UNCHANGED <<pc, context_, connectLocals>>
              ELSE /\ sleeps' = AfterSleep(sleeps)
                   /\ context_' = result
                   /\ connect_calls' = connect_calls + 1
                   /\ connect_failures' = IF ConnectFailed(result)
                                            THEN connect_failures + 1
                                            ELSE connect_failures
                   /\ connection_attempts' = connection_attempts + 1
                   /\ UNCHANGED <<pc, status>>
       ELSE /\ pc' = "config"
            /\ UNCHANGED <<status, context_, connectLocals>>
  /\ UNCHANGED <<registry, ub, async_context_, subscribe_context_,
                 config_reply, async_queue, subscribe_sent, single_shot,
                 invoked, replies, last>>

\* Lines 95-98: the condition under which REDIS_CHECK_ERROR returns
\* Status::RedisError.
REDIS_CHECK_ERROR_NullOnly(REPLY) == REPLY = "nullptr"

REDIS_CHECK_ERROR(REPLY) == REPLY = "nullptr" \/ REPLY = "REDIS_REPLY_ERROR"

\* Lines 133-136: CONFIG SET notify-keyspace-events and REDIS_CHECK_ERROR.
ConnectConfig(reply) ==
  /\ Running
  /\ pc = "config"
  /\ config_reply' = reply
  /\ IF REDIS_CHECK_ERROR(reply)
       THEN ConnectReturns("returned_error")
       ELSE pc' = "async" /\ UNCHANGED connectLocals
  /\ UNCHANGED <<registry, status, ub, context_, async_context_,
                 subscribe_context_, async_queue, subscribe_sent, single_shot,
                 invoked, replies, last>>

\* Lines 139-143: the command connection.
ConnectAsync(result) ==
  /\ Running
  /\ pc = "async"
  /\ async_context_' = result
  /\ IF ConnectFailed(result)
       THEN status' = "fatal" /\ pc' = pc
       ELSE status' = status /\ pc' = "subscribe"
  /\ UNCHANGED <<registry, ub, context_, connectLocals, subscribe_context_,
                 config_reply, async_queue, subscribe_sent, single_shot,
                 invoked, replies, last>>

\* Lines 145-150: the subscribe connection and the return of Status::OK.
ConnectSubscribe(result) ==
  /\ Running
  /\ pc = "subscribe"
  /\ subscribe_context_' = result
  /\ IF ConnectFailed(result)
       THEN status' = "fatal" /\ UNCHANGED <<pc, connectLocals>>
       ELSE status' = status /\ ConnectReturns("returned_ok")
  /\ UNCHANGED <<registry, ub, context_, async_context_, config_reply,
                 async_queue, subscribe_sent, single_shot, invoked, replies,
                 last>>

\* The callers follow the data flow of the design: a token comes from add and
\* is handed to one dispatcher while its callback is registered, and to no
\* other while a command or a subscription that carries it is outstanding.
Subscribed == {s.privdata : s \in subscribe_sent}
Pending == {async_queue[i] : i \in 1 .. Len(async_queue)}
Free == {t \in Tokens : Registered(t) /\ t \notin Pending \cup Subscribed}

\* ---- specification ------------------------------------------------------
Next ==
  \/ \E f \in Callbacks : Add(f)
  \/ \E l \in Lengths, ch \in Channels, t \in Free,
        sent \in {"REDIS_OK", "REDIS_ERR"} : RunAsync(l, ch, t, sent)
  \/ \E nil \in BOOLEAN, ch \in Channels, t \in Free,
        sent \in {"REDIS_OK", "REDIS_ERR"} : SubscribeAsync(nil, ch, t, sent)
  \/ \E r \in ReplySamples, body \in Bodies : CommandReply(r, body)
  \/ \E r \in ReplySamples, body \in Bodies : SubscribeReply(r, body)
  \/ \E c \in ConnectResults : ConnectStart(c)
  \/ \E c \in ConnectResults : ConnectRetry(c)
  \/ \E reply \in {"nullptr", "REDIS_REPLY_ERROR", "REDIS_REPLY_STATUS"} :
        ConnectConfig(reply)
  \/ \E c \in ConnectResults : ConnectAsync(c)
  \/ \E c \in ConnectResults : ConnectSubscribe(c)

Spec == Init /\ [][Next]_vars

\* ---- one routing step, from every state of the registry ----------------
\* The registry after some calls of add and some single-shot removals, a
\* connected context, one command pending and one subscription issued, each
\* for any token; then one reply, of any shape, is routed.
RegistryStates ==
  {c \in [Tokens -> Callbacks \cup {Absent}] :
     \E n \in 0 .. MaxCallbacks : \A t \in Tokens : t >= n => c[t] = Absent}

InitRouter ==
  /\ callbacks_ \in RegistryStates
  /\ num_callbacks \in 0 .. MaxCallbacks
  /\ \A t \in Tokens : t >= num_callbacks => callbacks_[t] = Absent
  /\ status = "running"
  /\ ub = FALSE
  /\ pc = "returned_ok"
  /\ context_ = "ok"
  /\ connection_attempts = 0
  /\ async_context_ = "ok"
  /\ subscribe_context_ = "ok"
  /\ connect_calls = 0
  /\ sleeps = 0
  /\ connect_failures = 0
  /\ config_reply = "REDIS_REPLY_STATUS"
  /\ \E t \in Tokens :
       /\ async_queue = <<t>>
       /\ single_shot = IF Registered(t) THEN {t} ELSE {}
  /\ \E t \in Tokens :
       subscribe_sent = {[privdata |-> t, channel |-> "TASK"]}
  /\ invoked = [t \in Tokens |-> 0]
  /\ replies = MaxReplies - 1
  /\ last = NoCall

NextRouter ==
  \/ \E r \in Replies, body \in Bodies : CommandReply(r, body)
  \/ \E r \in Replies, body \in Bodies : SubscribeReply(r, body)

SpecRouter == InitRouter /\ [][NextRouter]_vars

TypeOK ==
  /\ callbacks_ \in [Tokens -> Callbacks \cup {Absent, NullCallback}]
  /\ num_callbacks \in 0 .. MaxCallbacks
  /\ status \in {"running", "fatal", "crashed"}
  /\ ub \in BOOLEAN
  /\ Len(async_queue) <= MaxCallbacks
  /\ replies \in 0 .. MaxReplies

\* ---- properties ----------------------------------------------------------
\* A step in which the command router has routed the reply of the oldest
\* pending command, and one in which the subscribe router has routed a reply.
CommandStep ==
  /\ replies' = replies + 1
  /\ last'.op = "GlobalRedisCallback"

SubscribeStep ==
  /\ replies' = replies + 1
  /\ last'.op = "SubscribeRedisCallback"

LegalCommandShapes ==
  {"REDIS_REPLY_NIL", "REDIS_REPLY_STRING", "REDIS_REPLY_ARRAY",
   "REDIS_REPLY_STATUS", "REDIS_REPLY_ERROR"}

LegalSubscribeShapes == {"REDIS_REPLY_ARRAY", "REDIS_REPLY_ERROR"}

IsArray(r) == r.type = "REDIS_REPLY_ARRAY"
EmptyArray(r) == IsArray(r) /\ Len(r.element) = 0
FirstElement(r) == r.element[1]
LastElement(r) == r.element[Len(r.element)]

\* The callback registered under t was invoked once by this step, no other
\* callback was.
InvokedOnce(t) ==
  /\ last'.called
  /\ last'.token = t
  /\ last'.cb = callbacks_[t]
  /\ invoked' = [invoked EXCEPT ![t] = @ + 1]

\* C1: when the command router routes a non-null reply of one of the five
\* legal shapes for a registered token t, the callback registered under t is
\* invoked exactly once and t is absent from the registry afterwards.
C1_LegalReplyInvokesOnceAndRetires ==
  [][(/\ CommandStep
      /\ Registered(Head(async_queue))
      /\ last'.reply.type \in LegalCommandShapes)
       => (/\ InvokedOnce(Head(async_queue))
           /\ callbacks_'[Head(async_queue)] = Absent)]_vars

\* C1 holds of every legal reply but the array without elements.
C1_ExceptEmptyArray ==
  [][(/\ CommandStep
      /\ Registered(Head(async_queue))
      /\ last'.reply.type \in LegalCommandShapes
      /\ ~EmptyArray(last'.reply))
       => (/\ InvokedOnce(Head(async_queue))
           /\ callbacks_'[Head(async_queue)] = Absent)]_vars

\* C2: a step of the subscribe router, whatever the reply, leaves every
\* registered token registered with the same callback.
C2_SubscribeRouterKeepsTokens ==
  [][SubscribeStep
       => \A t \in Tokens :
            Registered(t) => callbacks_'[t] = callbacks_[t]]_vars

\* A message has been delivered to the callback of a subscription token, which
\* is still registered with that callback.
C2_Witness ==
  /\ last.op = "SubscribeRedisCallback"
  /\ last.called
  /\ IsArray(last.reply)
  /\ ~EmptyArray(last.reply)
  /\ CStr(FirstElement(last.reply)) = STR_message
  /\ callbacks_[last.token] = last.cb
  /\ invoked[last.token] = 1

\* C3 (as claimed): every single-shot callback (registered, and its token
\* accepted by RunAsync) whose command is no longer pending has been invoked
\* exactly once and is no longer registered.
C3_SingleShotExactlyOnce ==
  \A t \in single_shot :
    (Running /\ t \notin Pending)
      => (invoked[t] = 1 /\ ~Registered(t))

\* C3 (amended): a callback whose token is not used for a subscription is
\* never invoked twice, and once it has been invoked it is no longer
\* registered.
C3_SingleShotAtMostOnceThenRemoved ==
  \A t \in Tokens :
    t \notin Subscribed
      => (invoked[t] <= 1 /\ (invoked[t] = 1 => ~Registered(t)))

C3_Witness ==
  \E t \in single_shot :
    /\ Running
    /\ ~ub
    /\ t \notin Subscribed
    /\ invoked[t] = 1
    /\ ~Registered(t)
    /\ last.op = "GlobalRedisCallback"
    /\ last.token = t

\* The payload the claim gives for a reply: the bytes of a String, the bytes
\* of the last element of an Array, nothing for the other shapes.
ReferencePayload(r) ==
  IF r.type = "REDIS_REPLY_STRING" THEN r.str
  ELSE IF r.type = "REDIS_REPLY_ARRAY" THEN LastElement(r)
  ELSE <<>>

\* C4: the payload the command router hands to the callback is the reference
\* payload of the reply (for an array [e0..en], n >= 0).
C4_CommandPayloadIsReferenceDecode ==
  (/\ last.op = "GlobalRedisCallback"
   /\ last.called
   /\ ~EmptyArray(last.reply))
    => last.data = ReferencePayload(last.reply)

\* An array of two different elements was routed and the callback received
\* the second.
C4_Witness ==
  /\ last.op = "GlobalRedisCallback"
  /\ last.called
  /\ IsArray(last.reply)
  /\ Len(last.reply.element) = 2
  /\ FirstElement(last.reply) # LastElement(last.reply)
  /\ last.data = LastElement(last.reply)
  /\ last.data # <<>>

\* C5: the subscribe router, given an Error reply, invokes no callback and
\* leaves the registry as it was; the command router, given an Error reply for
\* a registered token, invokes its callback (with the empty payload).
C5_SubscribeErrorIsOnlyLogged ==
  [][/\ (SubscribeStep /\ last'.reply.type = "REDIS_REPLY_ERROR")
          => (/\ ~last'.called
              /\ invoked' = invoked
              /\ callbacks_' = callbacks_
              /\ num_callbacks' = num_callbacks
              /\ status' = status)
     /\ (/\ CommandStep
         /\ last'.reply.type = "REDIS_REPLY_ERROR"
         /\ Registered(Head(async_queue)))
          => (InvokedOnce(Head(async_queue)) /\ last'.data = <<>>)]_vars

C5_Witness ==
  /\ last.op = "SubscribeRedisCallback"
  /\ last.reply.type = "REDIS_REPLY_ERROR"
  /\ Registered(last.token)
  /\ ~last.called
  /\ invoked[last.token] = 0
  /\ Running

\* The reply is an array whose message type, read as a C string, is t.
HasMessageType(r, t) ==
  /\ IsArray(r)
  /\ ~EmptyArray(r)
  /\ CStr(FirstElement(r)) = t

\* C6: when the subscribe router is given a "message" reply whose last
\* element is empty, the process is in the fatal state and no callback was
\* called; no callback is ever invoked with an empty payload for a "message"
\* reply.
C6_EmptyMessageIsFatal ==
  (/\ last.op = "SubscribeRedisCallback"
   /\ HasMessageType(last.reply, STR_message))
    => /\ LastElement(last.reply) = <<>>
            => (status = "fatal" /\ ~last.called)
       /\ ~(last.called /\ last.data = <<>>)

\* A "message" with an empty last element, routed for a registered token.
C6_Witness ==
  /\ last.op = "SubscribeRedisCallback"
  /\ HasMessageType(last.reply, STR_message)
  /\ Len(last.reply.element) = 2
  /\ LastElement(last.reply) = <<>>
  /\ Registered(last.token)
  /\ invoked[last.token] = 0
  /\ status = "fatal"

\* C7: for a non-empty Array reply routed by the subscribe router for a
\* registered token, the callback is invoked exactly once with the empty
\* payload when the message type is "subscribe", exactly once with the bytes
\* of the last element when it is "message" and that element is not empty,
\* and not at all, the process being stopped, when the message type is any
\* other string.
C7_SubscribeArrayDispatch ==
  [][(/\ SubscribeStep
      /\ IsArray(last'.reply)
      /\ ~EmptyArray(last'.reply)
      /\ Registered(last'.token))
       => /\ HasMessageType(last'.reply, STR_subscribe)
               => (InvokedOnce(last'.token) /\ last'.data = <<>>)
          /\ (/\ HasMessageType(last'.reply, STR_message)
              /\ LastElement(last'.reply) # <<>>)
               => (/\ InvokedOnce(last'.token)
                   /\ last'.data = LastElement(last'.reply))
          /\ (/\ ~HasMessageType(last'.reply, STR_subscribe)
              /\ ~HasMessageType(last'.reply, STR_message))
               => (/\ status' = "fatal"
                   /\ ~last'.called
                   /\ invoked' = invoked)]_vars

\* A "subscribe" acknowledgment with a non-empty last element was routed: the
\* callback received the empty payload.
C7_Witness ==
  /\ last.op = "SubscribeRedisCallback"
  /\ HasMessageType(last.reply, STR_subscribe)
  /\ Len(last.reply.element) = 2
  /\ LastElement(last.reply) # <<>>
  /\ last.called
  /\ last.data = <<>>
  /\ invoked[last.token] = 1

\* C8: no SUBSCRIBE command is ever issued for the pub/sub-disabled channel;
\* a call of SubscribeAsync with that channel has stopped the process without
\* handing a command to the subscribe connection.
C8_NoSubscribeOnDisabledChannel ==
  /\ \A s \in subscribe_sent : s.channel # TablePubsub_NO_PUBLISH
  /\ (last.op = "SubscribeAsync" /\ last.args[2] = TablePubsub_NO_PUBLISH)
       => (status = "fatal" /\ last.wire = <<>> /\ last.ret = "none")

\* SubscribeAsync was called for a specific recipient with the disabled
\* channel.
C8_Witness ==
  /\ last.op = "SubscribeAsync"
  /\ last.args = <<FALSE, TablePubsub_NO_PUBLISH>>
  /\ status = "fatal"
  /\ subscribe_sent = {}

\* C9: while Connect runs there is one sleep between consecutive attempts, and
\* when the loop is left after k failed attempts and one that succeeded, k is
\* within the retry limit and exactly k sleeps were made.
C9_OneSleepPerFailedAttempt ==
  /\ pc = "loop" => sleeps = connect_calls - 1
  /\ pc \in {"config", "async", "subscribe"}
       => (/\ context_ = "ok"
           /\ connect_failures <= redis_db_connect_retries
           /\ connect_calls = connect_failures + 1
           /\ sleeps = connect_failures)

\* Two attempts failed, the third succeeded: two sleeps.
C9_Witness ==
  /\ pc = "config"
  /\ context_ = "ok"
  /\ connect_failures = 2
  /\ connect_calls = 3
  /\ sleeps = 2

\* C10 (as claimed): one call of Connect never makes more blocking connection
\* attempts than the configured maximum, and it only goes on after an attempt
\* that succeeded.
C10_AttemptsWithinLimit ==
  /\ connect_calls <= redis_db_connect_retries
  /\ pc \notin {"start", "loop"} => context_ = "ok"

\* C10 (amended): one call of Connect makes at most one attempt and
\* redis_db_connect_retries retries; it goes on only after an attempt that
\* succeeded, and when all these attempts have failed it does not return: the
\* process stops in the loop.
C10_AttemptsWithinRetriesPlusOne ==
  /\ connect_calls <= redis_db_connect_retries + 1
  /\ pc \notin {"start", "loop"} => context_ = "ok"
  /\ connect_failures = redis_db_connect_retries + 1 => pc = "loop"
  /\ (status = "fatal" /\ pc = "loop")
       => (/\ ConnectFailed(context_)
           /\ connect_failures = redis_db_connect_retries + 1)

\* Every attempt has failed and the process has stopped.
C10_Witness ==
  /\ status = "fatal"
  /\ pc = "loop"
  /\ connect_calls = redis_db_connect_retries + 1
  /\ connect_failures = connect_calls

\* C11: Connect issues the configuration command only after a blocking
\* connection that succeeded and before it opens either async connection; a
\* null or Error reply to it makes Connect return a recoverable error, the
\* process still running and neither async connection opened; Connect returns
\* success only with the configuration applied and both async connections
\* opened.
C11_ConfigAfterConnectBeforeAsync ==
  /\ config_reply # "none" => context_ = "ok"
  /\ pc \in {"start", "loop", "config"} =>
       /\ config_reply = "none"
       /\ async_context_ = "unset"
       /\ subscribe_context_ = "unset"
  /\ (async_context_ # "unset" \/ subscribe_context_ # "unset") =>
       config_reply = "REDIS_REPLY_STATUS"
  /\ config_reply \in {"nullptr", "REDIS_REPLY_ERROR"} =>
       /\ pc = "returned_error"
       /\ status = "running"
       /\ async_context_ = "unset"
       /\ subscribe_context_ = "unset"
  /\ pc = "returned_error" => config_reply \in {"nullptr", "REDIS_REPLY_ERROR"}
  /\ pc = "returned_ok" =>
       /\ config_reply = "REDIS_REPLY_STATUS"
       /\ context_ = "ok"
       /\ async_context_ = "ok"
       /\ subscribe_context_ = "ok"

\* Connect has returned the recoverable error after an Error reply to the
\* configuration command.
C11_Witness ==
  /\ pc = "returned_error"
  /\ config_reply = "REDIS_REPLY_ERROR"
  /\ status = "running"
  /\ context_ = "ok"
  /\ async_context_ = "unset"

\* C12: across add and remove in any order, add returns num_callbacks and
\* increments it, so the tokens it returns are strictly increasing; a token is
\* issued only while no entry is registered under it; the entry of a live
\* token is the callback passed to the add that returned the token until it
\* is removed, and it is the callback get returns for it.
C12_TokensStrictlyIncreasing ==
  [][/\ num_callbacks' >= num_callbacks
     /\ \A t \in Tokens :
          /\ t >= num_callbacks => callbacks_[t] = Absent
          /\ (callbacks_[t] = Absent /\ callbacks_'[t] # Absent) =>
               /\ num_callbacks <= t
               /\ t < num_callbacks'
               /\ callbacks_'[t] \in Callbacks
          /\ callbacks_[t] \in Callbacks =>
               callbacks_'[t] \in {callbacks_[t], Absent}
     /\ (last'.op = "add" /\ num_callbacks' # num_callbacks) =>
          /\ last'.token = num_callbacks
          /\ num_callbacks' = num_callbacks + 1
          /\ callbacks_[last'.token] = Absent
          /\ callbacks_'[last'.token] = last'.cb
     /\ (replies' = replies + 1 /\ last'.called) =>
          last'.cb = callbacks_[last'.token]]_vars

\* Token 0 has been removed by the command router, and the add after the
\* removal has returned token 1, registered with the callback passed to it.
C12_Witness ==
  /\ last.op = "add"
  /\ last.token = 1
  /\ last.cb = "g"
  /\ callbacks_[1] = "g"
  /\ callbacks_[0] = Absent
  /\ invoked[0] = 1
  /\ num_callbacks = 2

\* C13: when the command router looks up a token that has no entry in the
\* registry (the reply is not null and has a payload, so get is reached), the
\* process stops with a fatal error, no callback is invoked and no entry is
\* created for the token.
C13_AbsentTokenLookupIsFatal ==
  [][(/\ CommandStep
      /\ callbacks_[Head(async_queue)] = Absent
      /\ last'.reply # NullReply
      /\ CommandDecode(last'.reply).kind = "data")
       => (/\ status' = "fatal"
           /\ ~last'.called
           /\ callbacks_' = callbacks_)]_vars

\* C14: a null reply is a no-op in the command router and in the subscribe
\* router: no callback is invoked, the registry is unchanged (the token the
\* reply was routed for keeps its entry) and the process goes on.
C14_NullReplyIsNoOp ==
  [][(/\ replies' = replies + 1
      /\ last'.reply = NullReply)
       => (/\ last'.op \in {"GlobalRedisCallback", "SubscribeRedisCallback"}
           /\ ~last'.called
           /\ callbacks_' = callbacks_
           /\ num_callbacks' = num_callbacks
           /\ invoked' = invoked
           /\ status' = status
           /\ ub' = ub)]_vars

\* The command router has routed a null reply for a registered token, which
\* is still registered.
C14_Witness ==
  /\ last.op = "GlobalRedisCallback"
  /\ last.reply = NullReply
  /\ Registered(last.token)
  /\ invoked[last.token] = 0
  /\ async_queue = <<>>
  /\ status = "running"

\* C15: a reply that is not null and whose shape is not legal for the router
\* (command router: not Nil, String, Array, Status or Error; subscribe router:
\* not Array or Error) stops the process with a fatal error; no callback is
\* invoked and the token keeps its entry.
C15_IllegalShapeIsFatal ==
  [][(/\ replies' = replies + 1
      /\ last'.reply # NullReply
      /\ \/ /\ last'.op = "GlobalRedisCallback"
            /\ last'.reply.type \notin LegalCommandShapes
         \/ /\ last'.op = "SubscribeRedisCallback"
            /\ last'.reply.type \notin LegalSubscribeShapes)
       => (/\ status' = "fatal"
           /\ ~last'.called
           /\ callbacks_' = callbacks_
           /\ num_callbacks' = num_callbacks
           /\ invoked' = invoked)]_vars

\* The command router has stopped the process on an Integer reply for a
\* registered token, which is still registered and was not invoked.
C15_Witness ==
  /\ last.op = "GlobalRedisCallback"
  /\ last.reply.type = "REDIS_REPLY_INTEGER"
  /\ status = "fatal"
  /\ Registered(last.token)
  /\ invoked[last.token] = 0

\* C16: every call of RunAsync hands one command to the command connection
\* with GlobalRedisCallback as its handler and the caller's token as its
\* correlation value; the command has the three arguments channel, id and
\* payload when length > 0 and the two arguments channel and id otherwise; an
\* accepted call adds exactly this one command to the outstanding commands.
C16_WireFormByPayload ==
  [][(/\ last'.op = "RunAsync"
      /\ replies' = replies)
       => LET length == last'.args[1]
              pubsub_channel == last'.args[2]
              wire == last'.wire
          IN /\ wire[1] = "GlobalRedisCallback"
             /\ wire[2] = last'.token
             /\ IF length > 0
                  THEN /\ wire[3] = "%d %b %b"
                       /\ wire[4] = <<pubsub_channel, "id", "data">>
                  ELSE /\ wire[3] = "%d %b"
                       /\ wire[4] = <<pubsub_channel, "id">>
             /\ last'.ret \in {"OK", "RedisError"}
             /\ last'.ret = "OK" =>
                  async_queue' = Append(async_queue, last'.token)]_vars

\* RunAsync has been accepted with a payload: one command with three
\* arguments is outstanding for the caller's token.
C16_Witness ==
  /\ last.op = "RunAsync"
  /\ last.args[1] = 1
  /\ last.ret = "OK"
  /\ Len(last.wire[4]) = 3
  /\ async_queue = <<last.token>>

\* C17: the commands outstanding on the command connection are kept in the
\* order in which RunAsync was accepted for them, and with replies delivered
\* in that order the command router routes one reply per step, always for the
\* oldest command: when it routes a reply that is not null for token a, the
\* callback of a is invoked and a is removed (or the process stops) in that
\* step, while every token b accepted after a is still registered and its
\* callback has not been invoked.
C17_CommandRepliesRoutedInIssueOrder ==
  [][/\ (last'.op = "RunAsync" /\ replies' = replies /\ last'.ret = "OK") =>
          /\ Len(async_queue') = Len(async_queue) + 1
          /\ async_queue'[Len(async_queue')] = last'.token
          /\ \A i \in 1 .. Len(async_queue) :
               async_queue'[i] = async_queue[i]
     /\ CommandStep =>
          /\ last'.token = Head(async_queue)
          /\ async_queue' = Tail(async_queue)
          /\ \A i \in 2 .. Len(async_queue) :
               LET b == async_queue[i]
               IN /\ Registered(b)
                  /\ callbacks_'[b] = callbacks_[b]
                  /\ invoked'[b] = 0
     /\ (/\ CommandStep
         /\ Registered(Head(async_queue))
         /\ last'.reply # NullReply
         /\ status' = "running") =>
          LET a == Head(async_queue)
          IN /\ last'.called
             /\ last'.cb = callbacks_[a]
             /\ invoked'[a] = invoked[a] + 1
             /\ callbacks_'[a] = Absent
     /\ async_queue' # async_queue =>
          \/ CommandStep
          \/ last'.op = "RunAsync" /\ replies' = replies]_vars

\* Token 0 was accepted before token 1; the callback of 0 has been invoked
\* and removed, and after it the callback of 1.
C17_Witness ==
  /\ last.op = "GlobalRedisCallback"
  /\ last.called
  /\ last.token = 1
  /\ invoked[0] = 1
  /\ invoked[1] = 1
  /\ callbacks_[0] = Absent
  /\ callbacks_[1] = Absent
  /\ single_shot = {0, 1}

\* C18: RunAsync and SubscribeAsync leave the registry as it is; when one of
\* them returns the recoverable error, no command and no subscription is
\* outstanding for the call (nothing is retried, no router will be called for
\* it), and the caller's token is registered with the same callback as before.
C18_DispatchersLeaveRegistry ==
  [][(/\ last'.op \in {"RunAsync", "SubscribeAsync"}
      /\ replies' = replies)
       => /\ callbacks_' = callbacks_
          /\ num_callbacks' = num_callbacks
          /\ invoked' = invoked
          /\ last'.ret = "RedisError" =>
               /\ async_queue' = async_queue
               /\ subscribe_sent' = subscribe_sent
               /\ status' = status
               /\ Registered(last'.token)
               /\ callbacks_'[last'.token] = callbacks_[last'.token]]_vars

\* RunAsync has returned the recoverable error: nothing is outstanding and
\* the token is still registered, its callback not invoked.
C18_Witness ==
  /\ last.op = "RunAsync"
  /\ last.ret = "RedisError"
  /\ Registered(last.token)
  /\ invoked[last.token] = 0
  /\ async_queue = <<>>
  /\ status = "running"

\* C19: a step of the command router for token t changes no entry of another
\* registered token; the tokens issued to the invoked callback by its own
\* calls of add during the step differ from t and are registered after the
\* step, and no other entry appears.
C19_CommandRouterRemovesOnlyItsToken ==
  [][CommandStep =>
       LET t == Head(async_queue)
       IN \A u \in Tokens :
            /\ (u # t /\ Registered(u)) => callbacks_'[u] = callbacks_[u]
            /\ (num_callbacks <= u /\ u < num_callbacks') =>
                 /\ u # t
                 /\ last'.called
                 /\ callbacks_'[u] \in Callbacks
            /\ (u # t /\ callbacks_[u] = Absent /\ callbacks_'[u] # Absent) =>
                 (num_callbacks <= u /\ u < num_callbacks')]_vars

\* The command router has invoked and removed the callback of token 0, and
\* token 1 is registered after the step.
C19_Witness ==
  /\ last.op = "GlobalRedisCallback"
  /\ last.called
  /\ last.token = 0
  /\ callbacks_[0] = Absent
  /\ callbacks_[1] = "g"
  /\ num_callbacks = 2

\* C20: for every Array reply a router routes, the empty Array included, the
\* indices of reply->element it reads (elements - 1 for the payload in the
\* command router, 0 for the message type in the subscribe router) lie in
\* 0 .. elements - 1, so routing it for a registered token executes no
\* undefined read.
C20_ArrayIndexWithinBounds ==
  [][(/\ replies' = replies + 1
      /\ IsArray(last'.reply))
       => LET elements == Len(last'.reply.element)
          IN /\ last'.op = "GlobalRedisCallback" =>
                  /\ elements - 1 \in 0 .. elements - 1
                  /\ CommandDecode(last'.reply).kind # "ub"
             /\ last'.op = "SubscribeRedisCallback" =>
                  /\ 0 \in 0 .. elements - 1
                  /\ SubscribeDecode(last'.reply).kind # "ub"
             /\ callbacks_[last'.token] \in Callbacks => ub' = ub]_vars
====
